---- MODULE Spec2Model ----
(***************************************************************************)
(* A model of split_tilemap.py: the script that cuts one tilemap image     *)
(* into a 4x4 grid of named tiles and saves each tile as a PNG file.       *)
(*                                                                         *)
(* The state is the file system the script touches (the source file, the   *)
(* output directory, the files in it), the script's local variables, its   *)
(* standard output and its position.  One action is one statement group    *)
(* of the script; one iteration of the inner loop body is one action.      *)
(***************************************************************************)
EXTENDS Integers, Sequences, FiniteSets, TLC

VARIABLES
    pc,           \* position of the script: start, open, loop, done, failed
    err,          \* which call raised, when pc = "failed"
    run,          \* number of the current invocation of the script
    srcFile,      \* what is stored at tilemap_path
    dirExists,    \* whether output_dir exists
    disk,         \* the files of output_dir: path -> content
    disk0,        \* history: disk when the current invocation started
    prevDone,     \* history: disk at the end of the last completed invocation
    img,          \* the decoded image
    width, height,
    tile_width, tile_height,
    row, col,     \* the loop variables
    tile_index,
    writes,       \* history: the paths given to tile.save that returned, in order
    out           \* standard output, a sequence of lines

vars == <<pc, err, run, srcFile, dirExists, disk, disk0, prevDone, img, width,
          height, tile_width, tile_height, row, col, tile_index, writes, out>>

-----------------------------------------------------------------------------
(* Bounds of the model.                                                    *)

\* Source images have 0..MaxDim columns and 0..MaxDim rows.
MaxDim == 9

\* The script is invoked at most MaxRuns times on the same directory.
MaxRuns == 2

-----------------------------------------------------------------------------
(* Constants of the script.                                                *)

\* The grid is 4 x 4: width // 4, height // 4, range(4), range(4).
Grid == 4

output_dir == "/Users/majling/Development/its-just-fine/v2/public/assets/textures/ground"

\* A name table in which one name was pasted twice.
TileNamesDuplicate ==
    << <<"brick_wall", "cracked_stone", "bloodstained", "dirt_gravel">>,
       <<"mossy_stone", "rune_circle", "dark_vortex", "bones">>,
       <<"lava_cracks", "frozen_ice", "wooden_planks", "metal_grate">>,
       <<"spike_trap", "toxic_slime", "corrupted_stone", "corrupted_stone">> >>

tile_names ==
    << <<"brick_wall", "cracked_stone", "bloodstained", "dirt_gravel">>,
       <<"mossy_stone", "rune_circle", "dark_vortex", "bones">>,
       <<"lava_cracks", "frozen_ice", "wooden_planks", "metal_grate">>,
       <<"spike_trap", "toxic_slime", "corrupted_stone", "dark_concrete">> >>

\* tile_names[row][col] with Python's 0-based indices.
TileName(r, c) == tile_names[r + 1][c + 1]

\* os.path.join(output_dir, f"tile_{tile_name}.png")
OutputPath(tile_name) == output_dir \o "/" \o "tile_" \o tile_name \o ".png"

-----------------------------------------------------------------------------
(* Images.  An image is its size and its pixels: px[<<x, y>>] is the pixel *)
(* in column x of row y, 0-based as in the imaging library.  An image      *)
(* whose pixels are all known has DOMAIN px = (0..w-1) \X (0..h-1); a      *)
(* large image may be known at some positions only, and a copy of a part   *)
(* of it is then known at the positions copied from those.                 *)

NoImage == [w |-> 0, h |-> 0, px |-> <<>>]

Positions(w, h) == (0..(w - 1)) \X (0..(h - 1))

Inside(im, x, y) == x >= 0 /\ x < im.w /\ y >= 0 /\ y < im.h

\* The pixel of im at (x, y); a read outside the image yields 0, which is
\* what crop stores for the part of a box that lies outside the image.
Pixel(im, x, y) == IF Inside(im, x, y) THEN im.px[<<x, y>>] ELSE 0

\* img.crop((left, top, right, bottom)): a new image of the box's size
\* holding a copy of the box's pixels.
Crop(im, box) ==
    LET left == box[1]
        top == box[2]
        right == box[3]
        bottom == box[4]
        known == {p \in Positions(right - left, bottom - top) :
                     Inside(im, left + p[1], top + p[2])
                         => <<left + p[1], top + p[2]>> \in DOMAIN im.px}
    IN  [w |-> right - left,
         h |-> bottom - top,
         px |-> [p \in known |-> Pixel(im, left + p[1], top + p[2])]]

\* The pictures the source file may hold.  Crop only copies pixels, so an
\* image whose pixels are all different ("coord") shows every misplaced
\* pixel; "stripes" is an image with repeated pixel values.
Patterns == {"coord", "stripes"}

PatternPixel(pat, w, x, y) ==
    IF pat = "coord" THEN y * w + x + 1 ELSE ((x + 2 * y) % 3) + 1

\* The w x h image of the pattern pat, known at the positions (x, y) with
\* x in xs and y in ys.
SampledImage(w, h, pat, xs, ys) ==
    [w |-> w, h |-> h,
     px |-> [p \in (xs \cap (0..(w - 1))) \X (ys \cap (0..(h - 1))) |->
                PatternPixel(pat, w, p[1], p[2])]]

\* The w x h image of the pattern pat, every pixel known.
MakeImage(w, h, pat) == SampledImage(w, h, pat, 0..(w - 1), 0..(h - 1))

-----------------------------------------------------------------------------
(* Files.                                                                  *)

ImageFile(im) == [kind |-> "image", im |-> im]
MissingFile == [kind |-> "missing", im |-> NoImage]
GarbageFile == [kind |-> "garbage", im |-> NoImage]
\* What a save that raised part-way may leave behind.
PartialFile == [kind |-> "partial", im |-> NoImage]

\* An open that accepts any file that exists, reading an empty image from
\* one that does not decode.
DecodableLenient(f) == f.kind # "missing"

\* Image.open succeeds on a file that exists and decodes.
Decodable(f) == f.kind = "image"

\* A save that leaves an existing file alone.
SaveFileKeep(d, path, tile) ==
    IF path \in DOMAIN d THEN d ELSE (path :> ImageFile(tile)) @@ d

\* tile.save(output_path): creates the file or replaces its content.
SaveFile(d, path, tile) == (path :> ImageFile(tile)) @@ d

AllCells == {<<r, c>> : r \in 0..(Grid - 1), c \in 0..(Grid - 1)}

AllPaths == {OutputPath(TileName(cell[1], cell[2])) : cell \in AllCells}

StaleImage == MakeImage(1, 1, "coord")

\* The output directory before the first invocation: absent, empty, holding
\* older tiles under every name, or holding what an aborted earlier
\* invocation left.
InitialDirs ==
    { [exists |-> FALSE, files |-> <<>>],
      [exists |-> TRUE, files |-> <<>>],
      [exists |-> TRUE, files |-> [p \in AllPaths |-> ImageFile(StaleImage)]],
      [exists |-> TRUE,
       files |-> (OutputPath(TileName(0, 0)) :> ImageFile(StaleImage))
                 @@ (OutputPath(TileName(1, 3)) :> PartialFile)] }

-----------------------------------------------------------------------------
(* The script.                                                             *)

\* A tile size rounded up instead of down.
TileDimCeil(n) == (n + Grid - 1) \div Grid

\* tile_width = width // 4 ; tile_height = height // 4
TileDim(n) == n \div Grid

\* A crop box whose right and bottom edges are taken as inclusive.
CropBoxInclusive(r, c, tw, th) ==
    LET left == c * tw
        top == r * th
        right == left + tw - 1
        bottom == top + th - 1
    IN  <<left, top, right, bottom>>

\* A crop box with row and column exchanged.
CropBoxTransposed(r, c, tw, th) ==
    LET left == r * tw
        top == c * th
        right == left + tw
        bottom == top + th
    IN  <<left, top, right, bottom>>

\* A crop box one pixel too wide and too high.
CropBoxOverlapping(r, c, tw, th) ==
    LET left == c * tw
        top == r * th
        right == left + tw + 1
        bottom == top + th + 1
    IN  <<left, top, right, bottom>>

\* left, top, right, bottom of the cell (r, c)
CropBox(r, c, tw, th) ==
    LET left == c * tw
        top == r * th
        right == left + tw
        bottom == top + th
    IN  <<left, top, right, bottom>>

\* The loops nested the other way round: column by column.
NextCellColMajor(r, c) == IF r + 1 < Grid THEN <<r + 1, c>> ELSE <<0, c + 1>>

\* for row in range(4): for col in range(4): the cell after (r, c)
NextCell(r, c) == IF c + 1 < Grid THEN <<r, c + 1>> ELSE <<r + 1, 0>>

SavedLine(path) == "Saved: " \o path
SizeLine(w, h) == "Image size: " \o ToString(w) \o "x" \o ToString(h)
TileSizeLine(w, h) == "Tile size: " \o ToString(w) \o "x" \o ToString(h)
FinalLine(n) == "\nSuccessfully split tilemap into " \o ToString(n) \o " tiles!"

\* The locals of a freshly started process.
FreshLocals ==
    /\ img = NoImage
    /\ width = 0 /\ height = 0
    /\ tile_width = 0 /\ tile_height = 0
    /\ row = 0 /\ col = 0
    /\ tile_index = 0
    /\ writes = <<>>
    /\ out = <<>>

SourceFiles(dims) ==
    {MissingFile, GarbageFile}
        \cup {ImageFile(MakeImage(w, h, pat)) : w \in dims, h \in dims, pat \in Patterns}

InitWith(files) ==
    /\ pc = "start"
    /\ err = "none"
    /\ run = 1
    /\ srcFile \in files
    /\ \E d \in InitialDirs :
          /\ dirExists = d.exists
          /\ disk = d.files
          /\ disk0 = d.files
    /\ prevDone = [set |-> FALSE, files |-> <<>>]
    /\ FreshLocals

Init == InitWith(SourceFiles(0..MaxDim))

\* os.makedirs(output_dir, exist_ok=True)
Makedirs ==
    /\ pc = "start"
    /\ pc' = "open"
    /\ dirExists' = TRUE
    /\ UNCHANGED <<err, run, srcFile, disk, disk0, prevDone, img, width, height,
                   tile_width, tile_height, row, col, tile_index, writes, out>>

\* os.makedirs raises: the directory is absent and cannot be created.
MakedirsFail ==
    /\ pc = "start"
    /\ ~dirExists
    /\ pc' = "failed"
    /\ err' = "makedirs"
    /\ UNCHANGED <<run, srcFile, dirExists, disk, disk0, prevDone, img, width,
                   height, tile_width, tile_height, row, col, tile_index, writes,
                   out>>

\* img = Image.open(tilemap_path) up to tile_index = 0
OpenImage ==
    /\ pc = "open"
    /\ Decodable(srcFile)
    /\ img' = srcFile.im
    /\ width' = srcFile.im.w
    /\ height' = srcFile.im.h
    /\ tile_width' = TileDim(srcFile.im.w)
    /\ tile_height' = TileDim(srcFile.im.h)
    /\ out' = out \o <<SizeLine(srcFile.im.w, srcFile.im.h),
                       TileSizeLine(TileDim(srcFile.im.w), TileDim(srcFile.im.h))>>
    /\ tile_index' = 0
    /\ row' = 0 /\ col' = 0
    /\ pc' = "loop"
    /\ UNCHANGED <<err, run, srcFile, dirExists, disk, disk0, prevDone, writes>>

\* Image.open raises: the file is missing or is no image.
OpenFail ==
    /\ pc = "open"
    /\ ~Decodable(srcFile)
    /\ pc' = "failed"
    /\ err' = "open"
    /\ UNCHANGED <<run, srcFile, dirExists, disk, disk0, prevDone, img, width,
                   height, tile_width, tile_height, row, col, tile_index, writes,
                   out>>

\* One iteration of the loop body whose save returns.
SaveTile ==
    /\ pc = "loop"
    /\ row < Grid
    /\ LET tile == Crop(img, CropBox(row, col, tile_width, tile_height))
           output_path == OutputPath(TileName(row, col))
       IN  /\ disk' = SaveFile(disk, output_path, tile)
           /\ writes' = Append(writes, output_path)
           /\ tile_index' = tile_index + 1
           /\ out' = Append(out, SavedLine(output_path))
    /\ row' = NextCell(row, col)[1]
    /\ col' = NextCell(row, col)[2]
    /\ UNCHANGED <<pc, err, run, srcFile, dirExists, disk0, prevDone, img, width,
                   height, tile_width, tile_height>>

\* A loop body that swallows the error of tile.save and goes on to the next
\* cell.
SaveFailContinue ==
    /\ pc = "loop"
    /\ row < Grid
    /\ LET output_path == OutputPath(TileName(row, col))
       IN  \/ disk' = disk
           \/ disk' = (output_path :> PartialFile) @@ disk
    /\ err' = "save"
    /\ row' = NextCell(row, col)[1]
    /\ col' = NextCell(row, col)[2]
    /\ UNCHANGED <<pc, run, srcFile, dirExists, disk0, prevDone, img, width, height,
                   tile_width, tile_height, tile_index, writes, out>>

\* One iteration of the loop body whose save raises: nothing catches the
\* exception, so the process ends there.  The file is left as it was, or
\* holds what had been written of it.
SaveFail ==
    /\ pc = "loop"
    /\ row < Grid
    /\ LET output_path == OutputPath(TileName(row, col))
       IN  \/ disk' = disk
           \/ disk' = (output_path :> PartialFile) @@ disk
    /\ pc' = "failed"
    /\ err' = "save"
    /\ UNCHANGED <<run, srcFile, dirExists, disk0, prevDone, img, width, height,
                   tile_width, tile_height, row, col, tile_index, writes, out>>

\* print(f"\nSuccessfully split tilemap into {tile_index} tiles!")
Finish ==
    /\ pc = "loop"
    /\ row >= Grid
    /\ out' = Append(out, FinalLine(tile_index))
    /\ pc' = "done"
    /\ UNCHANGED <<err, run, srcFile, dirExists, disk, disk0, prevDone, img, width,
                   height, tile_width, tile_height, row, col, tile_index, writes>>

\* The script is run again on the same source file and output directory.
Rerun ==
    /\ pc = "done"
    /\ run < MaxRuns
    /\ run' = run + 1
    /\ pc' = "start"
    /\ err' = "none"
    /\ disk0' = disk
    /\ prevDone' = [set |-> TRUE, files |-> disk]
    /\ img' = NoImage
    /\ width' = 0 /\ height' = 0
    /\ tile_width' = 0 /\ tile_height' = 0
    /\ row' = 0 /\ col' = 0
    /\ tile_index' = 0
    /\ writes' = <<>>
    /\ out' = <<>>
    /\ UNCHANGED <<srcFile, dirExists, disk>>

Next ==
    \/ Makedirs
    \/ MakedirsFail
    \/ OpenImage
    \/ OpenFail
    \/ SaveTile
    \/ SaveFail
    \/ Finish
    \/ Rerun

Spec == Init /\ [][Next]_vars

\* The columns and rows at which the 1024 x 1024 tilemap of the scenario is
\* known: the first, second and last of every tile.
ScenarioSamples ==
    {0, 1, 255, 256, 257, 511, 512, 513, 767, 768, 769, 1023}

\* The scenario of a 1024 x 1024 tilemap.
Init1024 ==
    InitWith({MissingFile, GarbageFile}
                \cup {ImageFile(SampledImage(1024, 1024, pat, ScenarioSamples,
                                             ScenarioSamples)) : pat \in Patterns})

Spec1024 == Init1024 /\ [][Next]_vars

-----------------------------------------------------------------------------
(* Terms of the specification, used to state the properties below.         *)

\* The name table as the specification lists it, row 0 to row 3.
SpecNames ==
    << <<"brick_wall", "cracked_stone", "bloodstained", "dirt_gravel">>,
       <<"mossy_stone", "rune_circle", "dark_vortex", "bones">>,
       <<"lava_cracks", "frozen_ice", "wooden_planks", "metal_grate">>,
       <<"spike_trap", "toxic_slime", "corrupted_stone", "dark_concrete">> >>

\* <output_dir>/tile_<name>.png for the cell (r, c)
SpecPath(r, c) == output_dir \o "/tile_" \o SpecNames[r + 1][c + 1] \o ".png"

Cells == (0..3) \X (0..3)

\* The k-th cell in row-major order, k in 1..16.
CellAt(k) == <<(k - 1) \div 4, (k - 1) % 4>>

RowMajorPaths == [k \in 1..16 |-> SpecPath(CellAt(k)[1], CellAt(k)[2])]

\* The source image and its size.
Src == srcFile.im
W == srcFile.im.w
H == srcFile.im.h

Divisible == W % 4 = 0 /\ H % 4 = 0

\* The file of the cell (r, c) is an image file on disk.
HasTile(r, c) ==
    /\ SpecPath(r, c) \in DOMAIN disk
    /\ disk[SpecPath(r, c)].kind = "image"

\* The image stored for the cell (r, c).
TileOf(r, c) == disk[SpecPath(r, c)].im

\* The crop rectangle the script uses for the cell (r, c).
BoxOf(r, c) == CropBox(r, c, tile_width, tile_height)

InBox(x, y, box) == box[1] <= x /\ x < box[3] /\ box[2] <= y /\ y < box[4]

\* The cells whose crop rectangle holds the source pixel (x, y).
CellsHolding(x, y) == {cell \in Cells : InBox(x, y, BoxOf(cell[1], cell[2]))}

\* The tile the specification asks for at (r, c): tw x th pixels, pixel
\* (x, y) being source pixel (c*tw + x, r*th + y).
ExpectedTile(r, c) ==
    LET tw == W \div 4
        th == H \div 4
    IN  [w |-> tw, h |-> th,
         px |-> [p \in Positions(tw, th) |-> Src.px[<<c * tw + p[1], r * th + p[2]>>]]]

\* All 16 tiles are on disk, each the tile the specification asks for.
AllTilesWritten ==
    \A cell \in Cells :
        /\ HasTile(cell[1], cell[2])
        /\ TileOf(cell[1], cell[2]) = ExpectedTile(cell[1], cell[2])

\* The "Saved" lines of standard output, in order.
SavedLines == SelectSeq(out, LAMBDA l : Len(l) >= 7 /\ SubSeq(l, 1, 7) = "Saved: ")

-----------------------------------------------------------------------------
(* C1: for a source image whose width W and height H are both divisible    *)
(* by 4, a run that completes has written exactly 16 files, and every one  *)
(* of them holds an image of size exactly (W/4) x (H/4).                   *)
C1_SixteenTilesOfQuarterSize ==
    (pc = "done" /\ Divisible) =>
        /\ Cardinality({writes[k] : k \in 1..Len(writes)}) = 16
        /\ \A k \in 1..Len(writes) :
              /\ writes[k] \in DOMAIN disk
              /\ disk[writes[k]].kind = "image"
              /\ 4 * disk[writes[k]].im.w = W
              /\ 4 * disk[writes[k]].im.h = H
              /\ DOMAIN disk[writes[k]].im.px = Positions(W \div 4, H \div 4)

C1_Witness == pc = "done" /\ W = 8 /\ H = 4 /\ run = 1

(* C2: when W and H are divisible by 4, after a completed run the 16 crop  *)
(* rectangles are pairwise disjoint and together cover every source pixel  *)
(* (each source pixel lies in exactly one rectangle), pixel (x, y) of the  *)
(* tile at (row, col) equals source pixel (col*W/4 + x, row*H/4 + y), and  *)
(* laying the tiles out in row-major grid order gives back the source      *)
(* image pixel for pixel.                                                  *)
C2_TilesReassembleToSource ==
    (pc = "done" /\ Divisible) =>
        LET tw == W \div 4
            th == H \div 4
        IN  /\ \A x \in 0..(W - 1), y \in 0..(H - 1) :
                  Cardinality(CellsHolding(x, y)) = 1
            /\ \A cell \in Cells :
                  /\ HasTile(cell[1], cell[2])
                  /\ TileOf(cell[1], cell[2]).w = tw
                  /\ TileOf(cell[1], cell[2]).h = th
                  /\ \A x \in 0..(tw - 1), y \in 0..(th - 1) :
                        Pixel(TileOf(cell[1], cell[2]), x, y)
                            = Pixel(Src, cell[2] * tw + x, cell[1] * th + y)
            /\ [p \in Positions(W, H) |->
                    Pixel(TileOf(p[2] \div th, p[1] \div tw), p[1] % tw, p[2] % th)]
                  = Src.px

C2_Witness ==
    /\ pc = "done"
    /\ W = 8 /\ H = 8
    /\ Pixel(Src, 7, 7) # Pixel(Src, 0, 0)
    /\ Pixel(TileOf(3, 3), 1, 1) = Pixel(Src, 7, 7)

(* C3: after a completed run the files written are exactly                 *)
(* <output_dir>/tile_<name>.png for the 16 names of the specification's    *)
(* table, none twice and none missing; the cell (row, col) is written      *)
(* under the name the table gives for it; the script's name table is the   *)
(* specification's; and at no point of a run has a path been saved twice.  *)
C3_FilesAreTheNamedTiles ==
    /\ tile_names = SpecNames
    /\ \A i, j \in 1..Len(writes) : i # j => writes[i] # writes[j]
    /\ pc = "done" =>
          /\ Len(writes) = 16
          /\ {writes[k] : k \in 1..Len(writes)}
                = {SpecPath(cell[1], cell[2]) : cell \in Cells}
          /\ Cardinality({SpecPath(cell[1], cell[2]) : cell \in Cells}) = 16
          /\ \A k \in 1..16 : writes[k] = RowMajorPaths[k]
          /\ \A cell \in Cells :
                /\ HasTile(cell[1], cell[2])
                /\ TileOf(cell[1], cell[2]) = ExpectedTile(cell[1], cell[2])

C3_Witness ==
    /\ pc = "done"
    /\ writes[1] = output_dir \o "/tile_brick_wall.png"
    /\ writes[16] = output_dir \o "/tile_dark_concrete.png"
    /\ W = 8 /\ H = 8

(* C4, as stated: for a 1024 x 1024 source image the tile size is          *)
(* 256 x 256, pixel (0,0) of tile_brick_wall.png equals pixel (0,0) of the *)
(* source image, and pixel (0,0) of tile_bones.png equals pixel (0, 768)   *)
(* of the source image.                                                    *)
C4_BonesAtZero768 ==
    (pc = "done" /\ W = 1024 /\ H = 1024) =>
        /\ tile_width = 256 /\ tile_height = 256
        /\ Pixel(disk[output_dir \o "/tile_brick_wall.png"].im, 0, 0) = Pixel(Src, 0, 0)
        /\ Pixel(disk[output_dir \o "/tile_bones.png"].im, 0, 0) = Pixel(Src, 0, 768)

(* C4, amended: for a 1024 x 1024 source image the tile size is 256 x 256, *)
(* pixel (0,0) of tile_brick_wall.png equals pixel (0,0) of the source     *)
(* image, and pixel (0,0) of tile_bones.png (row 1, col 3: left = 768,     *)
(* top = 256) equals the source pixel at x = 768, y = 256.                 *)
C4_BonesAt768_256 ==
    (pc = "done" /\ W = 1024 /\ H = 1024) =>
        /\ tile_width = 256 /\ tile_height = 256
        /\ disk[output_dir \o "/tile_brick_wall.png"].im.w = 256
        /\ disk[output_dir \o "/tile_brick_wall.png"].im.h = 256
        /\ disk[output_dir \o "/tile_bones.png"].im.w = 256
        /\ disk[output_dir \o "/tile_bones.png"].im.h = 256
        /\ Pixel(disk[output_dir \o "/tile_brick_wall.png"].im, 0, 0) = Pixel(Src, 0, 0)
        /\ Pixel(disk[output_dir \o "/tile_bones.png"].im, 0, 0) = Pixel(Src, 768, 256)

C4_Witness ==
    /\ pc = "done"
    /\ W = 1024 /\ H = 1024
    /\ HasTile(1, 3)
    /\ Pixel(Src, 768, 256) # Pixel(Src, 0, 768)
    /\ Pixel(Src, 768, 256) # Pixel(Src, 256, 768)

\* The pixels of im are all different.
DistinctPixels(im) == im = MakeImage(im.w, im.h, "coord")

\* The pixel values stored in the image im.
PixelValues(im) == {im.px[p] : p \in DOMAIN im.px}

(* C5: when W or H is not divisible by 4, no step of the script refuses    *)
(* the image (decoding, every crop-and-save and the final print stay       *)
(* possible), and a run that completes has written 16 tiles, every one of  *)
(* size exactly (W div 4) x (H div 4); the source pixels with              *)
(* x >= 4*(W div 4) or y >= 4*(H div 4) lie in no crop rectangle and, in   *)
(* an image of distinct pixels, appear in no tile; every other source      *)
(* pixel lies in exactly one rectangle and is the tile's pixel there.      *)
C5_TruncatedTiles ==
    ~Divisible =>
        /\ pc = "open" => ENABLED OpenImage
        /\ (pc = "loop" /\ row < 4) => ENABLED SaveTile
        /\ (pc = "loop" /\ row >= 4) => ENABLED Finish
        /\ pc = "done" =>
              LET tw == W \div 4
                  th == H \div 4
              IN  /\ Len(writes) = 16
                  /\ Cardinality({writes[k] : k \in 1..Len(writes)}) = 16
                  /\ \A cell \in Cells :
                        /\ HasTile(cell[1], cell[2])
                        /\ TileOf(cell[1], cell[2]).w = tw
                        /\ TileOf(cell[1], cell[2]).h = th
                        /\ DOMAIN TileOf(cell[1], cell[2]).px = Positions(tw, th)
                        /\ \A x \in 0..(tw - 1), y \in 0..(th - 1) :
                              Pixel(TileOf(cell[1], cell[2]), x, y)
                                  = Pixel(Src, cell[2] * tw + x, cell[1] * th + y)
                  /\ \A x \in 0..(W - 1), y \in 0..(H - 1) :
                        IF x >= 4 * tw \/ y >= 4 * th
                           THEN /\ CellsHolding(x, y) = {}
                                /\ DistinctPixels(Src) =>
                                      \A cell \in Cells :
                                          Pixel(Src, x, y)
                                              \notin PixelValues(TileOf(cell[1], cell[2]))
                           ELSE Cardinality(CellsHolding(x, y)) = 1

C5_Witness ==
    /\ pc = "done"
    /\ W = 9 /\ H = 6
    /\ DistinctPixels(Src)
    /\ TileOf(0, 0).w = 2 /\ TileOf(0, 0).h = 1
    /\ CellsHolding(8, 0) = {}
    /\ CellsHolding(7, 3) = {<<3, 3>>}

(* C6: when the source file is missing or undecodable, the run ends in an  *)
(* error at Image.open and never completes: it saves nothing, the files    *)
(* of the output directory stay as they were when the run started, no      *)
(* line is printed, and by the time Image.open has failed the output       *)
(* directory exists.                                                       *)
C6_NoTilesOnOpenFailure ==
    (srcFile.kind \in {"missing", "garbage"}) =>
        /\ pc \in {"start", "open", "failed"}
        /\ pc = "open" => (~ENABLED OpenImage /\ ENABLED OpenFail)
        /\ pc = "failed" => (err \in {"makedirs", "open"} /\ ~ENABLED Next)
        /\ (pc = "failed" /\ err = "open") => dirExists
        /\ writes = <<>>
        /\ out = <<>>
        /\ disk = disk0

C6_Witness ==
    /\ pc = "failed" /\ err = "open"
    /\ srcFile.kind = "missing"
    /\ dirExists
    /\ disk = <<>>

(* C7: if the save of the k-th tile (row-major, 1 <= k <= 16) fails, the   *)
(* process has terminated with an error: no step of the run follows, no    *)
(* later tile has been saved, the tiles saved by the run are exactly the   *)
(* first k-1 in row-major order and they are on disk, the files of the     *)
(* later cells are as they were when the run started, and the final line   *)
(* has not been printed.                                                   *)
C7_SaveFailureStopsTheRun ==
    (err = "save") =>
        LET k == Len(writes) + 1
        IN  /\ pc = "failed"
            /\ ~ENABLED Next
            /\ k \in 1..16
            /\ CellAt(k) = <<row, col>>
            /\ tile_index = k - 1
            /\ writes = SubSeq(RowMajorPaths, 1, k - 1)
            /\ \A j \in 1..(k - 1) :
                  /\ HasTile(CellAt(j)[1], CellAt(j)[2])
                  /\ TileOf(CellAt(j)[1], CellAt(j)[2])
                        = ExpectedTile(CellAt(j)[1], CellAt(j)[2])
            /\ \A j \in (k + 1)..16 :
                  IF RowMajorPaths[j] \in DOMAIN disk0
                     THEN /\ RowMajorPaths[j] \in DOMAIN disk
                          /\ disk[RowMajorPaths[j]] = disk0[RowMajorPaths[j]]
                     ELSE RowMajorPaths[j] \notin DOMAIN disk
            /\ Len(SavedLines) = k - 1
            /\ \A i \in 1..Len(out) : out[i] # FinalLine(tile_index)
            /\ \A i \in 1..Len(out) : out[i] # FinalLine(16)

C7_Witness ==
    /\ pc = "failed" /\ err = "save"
    /\ Len(writes) = 6
    /\ W = 8 /\ H = 8
    /\ RowMajorPaths[7] \in DOMAIN disk /\ disk[RowMajorPaths[7]].kind = "partial"
    /\ RowMajorPaths[8] \in DOMAIN disk /\ disk[RowMajorPaths[8]].im = StaleImage
    /\ TileOf(1, 1) = ExpectedTile(1, 1)

(* C8: a completed run leaves, under each of the 16 names, the tile the    *)
(* source image determines, whatever the files held before the run, and    *)
(* adds or removes no other file; so a second run on the same source and   *)
(* directory leaves the directory as the first completed run left it, and  *)
(* every save of the second run writes the content the first run wrote.    *)
C8_RunsAreIdempotent ==
    /\ pc = "done" =>
          /\ AllTilesWritten
          /\ DOMAIN disk = DOMAIN disk0 \cup {SpecPath(cell[1], cell[2]) : cell \in Cells}
          /\ prevDone.set => disk = prevDone.files
    /\ (prevDone.set /\ pc \in {"loop", "done"}) =>
          \A k \in 1..Len(writes) : disk[writes[k]] = prevDone.files[writes[k]]

C8_Witness ==
    /\ pc = "done"
    /\ run = 2
    /\ prevDone.set
    /\ W = 8 /\ H = 5
    /\ DistinctPixels(Src)
    /\ disk = prevDone.files
    /\ TileOf(3, 3) # StaleImage

\* A first run that completes over files older runs left behind.
C8_WitnessOverwrite ==
    /\ pc = "done"
    /\ run = 1
    /\ \A cell \in Cells :
          /\ SpecPath(cell[1], cell[2]) \in DOMAIN disk0
          /\ disk0[SpecPath(cell[1], cell[2])] = ImageFile(StaleImage)

(* C9: the saves happen one at a time in row-major order: at every point   *)
(* the paths saved so far are the first tile_index paths of the row-major  *)
(* order, so the tile at (row, col) is saved only after every cell before  *)
(* it; the "Saved" lines printed are one per saved tile, in the same       *)
(* order, each naming the path saved; after the save of the cell (r, c),   *)
(* tile_index = 4*r + c + 1; and the final line reports 16, is the last    *)
(* line, and is printed only when all 16 tiles have been saved.            *)
C9_RowMajorOrder ==
    /\ tile_index = Len(writes)
    /\ tile_index \in 0..16
    /\ writes = SubSeq(RowMajorPaths, 1, tile_index)
    /\ tile_index >= 1 =>
          tile_index = 4 * CellAt(Len(writes))[1] + CellAt(Len(writes))[2] + 1
    /\ (pc = "loop" /\ row < 4) => (col \in 0..3 /\ tile_index = 4 * row + col)
    /\ (pc = "loop" /\ row >= 4) => tile_index = 16
    /\ SavedLines = [k \in 1..Len(writes) |-> "Saved: " \o writes[k]]
    /\ \A i \in 1..Len(out) :
          out[i] \in {FinalLine(n) : n \in 0..16} =>
              /\ out[i] = "\nSuccessfully split tilemap into 16 tiles!"
              /\ i = Len(out)
              /\ Len(writes) = 16
              /\ pc = "done"
    /\ pc = "done" =>
          /\ Len(out) = 19
          /\ out[19] = "\nSuccessfully split tilemap into 16 tiles!"

C9_Witness ==
    /\ pc = "loop"
    /\ row = 2 /\ col = 1
    /\ tile_index = 9
    /\ writes[9] = output_dir \o "/tile_lava_cracks.png"
    /\ out[11] = "Saved: " \o output_dir \o "/tile_lava_cracks.png"

C9_WitnessDone ==
    /\ pc = "done"
    /\ Len(SavedLines) = 16
    /\ out[1] = "Image size: 9x6"
    /\ out[2] = "Tile size: 2x1"

\* No pixel position, inside the image or on its edge, lies in the crop
\* rectangles of two different cells.
BoxesDisjoint ==
    \A x \in 0..W, y \in 0..H : Cardinality(CellsHolding(x, y)) <= 1

\* Once the image is decoded: every crop rectangle lies inside the image
\* and the rectangles of two different cells share no pixel.
C10_BoxesInside ==
    (pc \in {"loop", "done"} \/ err = "save") =>
        /\ img = Src
        /\ width = W /\ height = H
        /\ W >= 0 /\ H >= 0
        /\ \A cell \in Cells :
              LET box == BoxOf(cell[1], cell[2])
              IN  /\ box = <<cell[2] * (W \div 4), cell[1] * (H \div 4),
                             cell[2] * (W \div 4) + (W \div 4),
                             cell[1] * (H \div 4) + (H \div 4)>>
                  /\ 0 <= box[1] /\ box[1] <= box[3] /\ box[3] <= W
                  /\ 0 <= box[2] /\ box[2] <= box[4] /\ box[4] <= H
        /\ BoxesDisjoint

(* C10: for every image size W >= 0, H >= 0 and every cell (row, col) the  *)
(* crop rectangle is (col*tw, row*th, col*tw + tw, row*th + th) with       *)
(* tw = W div 4, th = H div 4 and satisfies 0 <= left <= right <= W and    *)
(* 0 <= top <= bottom <= H; the rectangles of two different cells never    *)
(* overlap; and no crop-and-save step changes the decoded image, its       *)
(* recorded size or the source file.                                       *)
C10_CropsStayInsideAndLeaveSource ==
    /\ []C10_BoxesInside
    /\ [][pc = "loop" =>
            /\ img' = img
            /\ width' = width /\ height' = height
            /\ tile_width' = tile_width /\ tile_height' = tile_height
            /\ srcFile' = srcFile]_vars

C10_Witness ==
    /\ pc = "loop"
    /\ W = 7 /\ H = 9
    /\ tile_index = 16
    /\ BoxOf(3, 3) = <<3, 6, 4, 8>>

====
